---------------------------- MODULE Spec2Model ----------------------------
(***************************************************************************)
(* A model of the service-worker manifest generator                        *)
(* (src/esm2020/config/src/generator.mjs).                                 *)
(*                                                                         *)
(* Strings are sequences of one-character strings, so that startsWith,     *)
(* substr, concatenation and the code-unit order used by Array.sort() are  *)
(* computed rather than assumed.                                           *)
(***************************************************************************)
EXTENDS Integers, Sequences, FiniteSets, TLC

(***************************************************************************)
(* Bounds of the model.                                                    *)
(***************************************************************************)
\* largest number of files in a file snapshot
MaxFiles == 3
\* largest number of globs in the list handed to globListToMatcher
MaxGlobs == 3
\* largest value Date.now() returns
MaxClock == 1
\* the longest base and url, in characters, that are drawn from an alphabet
MaxUrlLen == 3
\* largest number of events (emissions, controller changes) in one behaviour
MaxSwEvents == 3

(***************************************************************************)
(* Strings.                                                                *)
(***************************************************************************)
\* The characters used by the model, in ascending UTF-16 code-unit order.
CharOrder ==
    << "!", "*", ".", "/", ":", "?", "_",
       "a", "b", "c", "d", "e", "f", "g", "h", "i", "j", "k", "l", "m",
       "n", "o", "p", "q", "r", "s", "t", "u", "v", "w", "x", "y", "z" >>

Code(c) == CHOOSE i \in DOMAIN CharOrder : CharOrder[i] = c

\* a < b in the order of the default comparator of Array.prototype.sort
RECURSIVE StrLess(_, _)
StrLess(a, b) ==
    IF b = << >> THEN FALSE
    ELSE IF a = << >> THEN TRUE
    ELSE IF Head(a) = Head(b) THEN StrLess(Tail(a), Tail(b))
    ELSE Code(Head(a)) < Code(Head(b))

\* String.prototype.startsWith / endsWith with a one-character argument
startsWith(s, c) == Len(s) > 0 /\ s[1] = c
endsWith(s, c) == Len(s) > 0 /\ s[Len(s)] = c
\* String.prototype.substr(1)
substr1(s) == SubSeq(s, 2, Len(s))

\* Array.prototype.sort() without a comparator: insertion into a sorted prefix
RECURSIVE InsertSorted(_, _)
InsertSorted(x, sorted) ==
    IF sorted = << >> THEN << x >>
    ELSE IF StrLess(x, Head(sorted)) THEN << x >> \o sorted
    ELSE << Head(sorted) >> \o InsertSorted(x, Tail(sorted))

RECURSIVE sort(_)
sort(arr) ==
    IF arr = << >> THEN << >>
    ELSE InsertSorted(arr[Len(arr)], sort(SubSeq(arr, 1, Len(arr) - 1)))

\* [].concat(...arrays)
RECURSIVE concat(_)
concat(arrays) ==
    IF arrays = << >> THEN << >> ELSE Head(arrays) \o concat(Tail(arrays))

Range(seq) == { seq[i] : i \in DOMAIN seq }

IsStrictlyAscending(seq) ==
    \A i \in 1 .. Len(seq) - 1 : StrLess(seq[i], seq[i + 1])

\* an optional value (a property that may be undefined): << >> or << value >>
Undefined == << >>
Def(x) == << x >>
IsDef(o) == o # << >>
Val(o) == o[1]

\* String.prototype.indexOf(sub) !== -1
Contains(s, sub) ==
    \E i \in 1 .. Len(s) - Len(sub) + 1 : SubSeq(s, i, i + Len(sub) - 1) = sub

\* all orders in which the elements of a finite set can be listed
ListOrders(S) ==
    { p \in [1 .. Cardinality(S) -> S] :
        \A i, j \in 1 .. Cardinality(S) : p[i] = p[j] => i = j }

(***************************************************************************)
(* The URL normalizer (generator.mjs:133-141).                             *)
(***************************************************************************)
\* joinUrls that always inserts a separator and drops nothing
joinUrlsInsertSlash(a, b) == a \o << "/" >> \o b

joinUrls(a, b) ==
    IF endsWith(a, "/") /\ startsWith(b, "/") THEN a \o substr1(b)
    ELSE IF ~endsWith(a, "/") /\ ~startsWith(b, "/") THEN a \o << "/" >> \o b
    ELSE a \o b

(***************************************************************************)
(* Plain objects used as maps (generator.mjs:27, 61, 142-146): a sequence  *)
(* of << key, value >> pairs in insertion order, which is the order        *)
(* Object.keys and serialization enumerate for these keys.                 *)
(***************************************************************************)
ObjKeys(obj) == [i \in DOMAIN obj |-> obj[i][1]]
ObjGet(obj, key) == obj[CHOOSE i \in DOMAIN obj : obj[i][1] = key][2]
\* obj[key] = value
ObjSet(obj, key, value) ==
    IF \E i \in DOMAIN obj : obj[i][1] = key
    THEN [i \in DOMAIN obj |->
              IF obj[i][1] = key THEN << key, value >> ELSE obj[i]]
    ELSE Append(obj, << key, value >>)

\* withOrderedKeys without the sort: the keys stay in insertion order
withInsertionOrder(unorderedObj) == unorderedObj

withOrderedKeys(unorderedObj) ==
    LET keys == sort(ObjKeys(unorderedObj))
        O[i \in 0 .. Len(keys)] ==
            IF i = 0 THEN << >>
            ELSE ObjSet(O[i - 1], keys[i], ObjGet(unorderedObj, keys[i]))
    IN O[Len(keys)]

(***************************************************************************)
(* The glob compiler ('./glob', imported at generator.mjs:9).  A compiled  *)
(* regular expression is a sequence of tokens; the anchors are tokens too. *)
(***************************************************************************)
Caret == [kind |-> "^"]
Dollar == [kind |-> "$"]
WILD_SINGLE == [kind |-> "[^/]*"]
WILD_ANY == [kind |-> ".*"]
ANY_CHAR == [kind |-> "."]
Lit(c) == [kind |-> "lit", ch |-> c]

\* `**` spans segments, `*` stays within one segment, `?` is one character
\* (or a literal `?` in literal-question-mark mode), anything else is literal.
RECURSIVE globToRegex(_, _)
globToRegex(glob, literalQuestionMark) ==
    IF glob = << >> THEN << >>
    ELSE IF Len(glob) >= 2 /\ glob[1] = "*" /\ glob[2] = "*"
         THEN << WILD_ANY >>
                  \o globToRegex(SubSeq(glob, 3, Len(glob)), literalQuestionMark)
    ELSE IF glob[1] = "*"
         THEN << WILD_SINGLE >> \o globToRegex(Tail(glob), literalQuestionMark)
    ELSE IF glob[1] = "?" /\ ~literalQuestionMark
         THEN << ANY_CHAR >> \o globToRegex(Tail(glob), literalQuestionMark)
    ELSE << Lit(glob[1]) >> \o globToRegex(Tail(glob), literalQuestionMark)

\* the regex matches s from position i on
RECURSIVE MatchAt(_, _, _)
MatchAt(re, s, i) ==
    IF re = << >> THEN TRUE
    ELSE LET t == Head(re)
             rest == Tail(re)
         IN CASE t.kind = "^" -> i = 1 /\ MatchAt(rest, s, i)
              [] t.kind = "$" -> i = Len(s) + 1 /\ MatchAt(rest, s, i)
              [] t.kind = ".*" ->
                     \E j \in i .. Len(s) + 1 : MatchAt(rest, s, j)
              [] t.kind = "[^/]*" ->
                     \E j \in i .. Len(s) + 1 :
                         /\ \A k \in i .. j - 1 : s[k] # "/"
                         /\ MatchAt(rest, s, j)
              [] t.kind = "." -> i <= Len(s) /\ MatchAt(rest, s, i + 1)
              [] OTHER -> i <= Len(s) /\ s[i] = t.ch /\ MatchAt(rest, s, i + 1)

\* RegExp.prototype.test: a match starting anywhere in s
RegExpTest(re, s) == \E i \in 1 .. Len(s) + 1 : MatchAt(re, s, i)

(***************************************************************************)
(* Glob lists (generator.mjs:96-123).                                      *)
(***************************************************************************)
\* new RegExp('^' + source + '$')
AnchoredRegExp(source) == << Caret >> \o source \o << Dollar >>

\* CompilePattern without the substr(1) that drops the negation marker
CompilePatternKeepBang(pattern) ==
    [positive |-> ~startsWith(pattern, "!"),
     regex |-> AnchoredRegExp(globToRegex(pattern, FALSE))]

\* the callback of globs.map in globListToMatcher
CompilePattern(pattern) ==
    IF startsWith(pattern, "!")
    THEN [positive |-> FALSE,
          regex |-> AnchoredRegExp(globToRegex(substr1(pattern), FALSE))]
    ELSE [positive |-> TRUE,
          regex |-> AnchoredRegExp(globToRegex(pattern, FALSE))]

\* MatchStep with || in place of && in the negative branch
MatchStepOrNot(isMatch, pattern, file) ==
    IF pattern.positive
    THEN isMatch \/ RegExpTest(pattern.regex, file)
    ELSE isMatch \/ ~RegExpTest(pattern.regex, file)

\* the reducer of patterns.reduce in matches
MatchStep(isMatch, pattern, file) ==
    IF pattern.positive
    THEN isMatch \/ RegExpTest(pattern.regex, file)
    ELSE isMatch /\ ~RegExpTest(pattern.regex, file)

\* matches as "some positive pattern and no negative pattern", not a fold
matchesAnyOrder(file, patterns) ==
    /\ \E i \in DOMAIN patterns :
           patterns[i].positive /\ RegExpTest(patterns[i].regex, file)
    /\ \A i \in DOMAIN patterns :
           patterns[i].positive \/ ~RegExpTest(patterns[i].regex, file)

\* matches with reduceRight in place of reduce
matchesReduceRight(file, patterns) ==
    LET R[i \in 1 .. Len(patterns) + 1] ==
            IF i = Len(patterns) + 1 THEN FALSE
            ELSE MatchStep(R[i + 1], patterns[i], file)
    IN R[1]

\* patterns.reduce(..., false)
matches(file, patterns) ==
    LET R[i \in 0 .. Len(patterns)] ==
            IF i = 0 THEN FALSE ELSE MatchStep(R[i - 1], patterns[i], file)
    IN R[Len(patterns)]

\* globListToMatcher(globs)(file)
globListToMatcher(globs, file) ==
    matches(file, [i \in DOMAIN globs |-> CompilePattern(globs[i])])

GlobStarStar == << "*", "*" >>

(***************************************************************************)
(* URL patterns (generator.mjs:89-95, 124-132).                            *)
(***************************************************************************)
\* baseHref.replace(/^\./, ''): without the lookahead
StripAnyLeadingDot(baseHref) ==
    IF Len(baseHref) >= 1 /\ baseHref[1] = "."
    THEN substr1(baseHref)
    ELSE baseHref

\* baseHref.replace(/^\.(?=\/)/, '')
StripLeadingDot(baseHref) ==
    IF Len(baseHref) >= 2 /\ baseHref[1] = "." /\ baseHref[2] = "/"
    THEN substr1(baseHref)
    ELSE baseHref

\* lines 125-130: the url handed to the glob compiler
PrefixedUrl(url, baseHref) ==
    IF ~startsWith(url, "/") /\ ~Contains(url, << ":", "/", "/" >>)
    THEN joinUrls(StripLeadingDot(baseHref), url)
    ELSE url

urlToRegex(url, baseHref, literalQuestionMark) ==
    globToRegex(PrefixedUrl(url, baseHref), literalQuestionMark)

DEFAULT_NAVIGATION_URLS ==
    << << "/", "*", "*" >>,
       << "!", "/", "*", "*", "/", "*", ".", "*" >>,
       << "!", "/", "*", "*", "/", "*", "_", "_", "*" >>,
       << "!", "/", "*", "*", "/", "*", "_", "_", "*", "/", "*", "*" >> >>

\* processNavigationUrls without the substr(1) of line 92
processNavigationUrlsKeepBang(baseHref, urls) ==
    LET list == IF IsDef(urls) THEN Val(urls) ELSE DEFAULT_NAVIGATION_URLS
    IN [i \in DOMAIN list |->
           [positive |-> ~startsWith(list[i], "!"),
            regex |-> AnchoredRegExp(urlToRegex(list[i], baseHref, FALSE))]]

\* urls is optional: the default parameter value applies when it is undefined
processNavigationUrls(baseHref, urls) ==
    LET list == IF IsDef(urls) THEN Val(urls) ELSE DEFAULT_NAVIGATION_URLS
    IN [i \in DOMAIN list |->
           LET positive == ~startsWith(list[i], "!")
               url == IF positive THEN list[i] ELSE substr1(list[i])
           IN [positive |-> positive,
               regex |-> AnchoredRegExp(urlToRegex(url, baseHref, FALSE))]]

(***************************************************************************)
(* Configurations, base hrefs and file snapshots the generator is run on.  *)
(***************************************************************************)
AssetGroup(name, installMode, updateMode, files, urls, versionedFiles) ==
    [name |-> name, installMode |-> installMode, updateMode |-> updateMode,
     resources |-> [files |-> files, urls |-> urls,
                    versionedFiles |-> versionedFiles]]

DataGroup(name, urls, strategy, maxSize, version) ==
    [name |-> name, urls |-> urls, version |-> version,
     cacheConfig |-> [strategy |-> strategy, maxSize |-> maxSize]]

Config(assetGroups, dataGroups, navigationUrls, navigationRequestStrategy) ==
    [appData |-> "appData", index |-> << "/", "i" >>,
     assetGroups |-> assetGroups, dataGroups |-> dataGroups,
     navigationUrls |-> navigationUrls,
     navigationRequestStrategy |-> navigationRequestStrategy]

MainJs == << "/", "m", ".", "j", "s" >>
VendorJs == << "/", "v", ".", "j", "s" >>
ReadmeTxt == << "/", "r", ".", "t" >>
\* a path the host lists without the leading "/"
BareJs == << "b", ".", "j", "s" >>
FileChoices == { MainJs, VendorJs, ReadmeTxt, BareJs }

\* fs.hash(file) when the lookup succeeds
FsHash(file) ==
    CASE file = MainJs -> "hash-m"
      [] file = VendorJs -> "hash-v"
      [] file = ReadmeTxt -> "hash-r"
      [] OTHER -> "hash-m"

GlobRootJs == << "/", "*", ".", "j", "s" >>
GlobNotVendor == << "!", "/", "v", ".", "j", "s" >>
GlobApi == << "/", "a", "p", "i", "/", "*", "*" >>

DataApi == DataGroup("api", << GlobApi >>, Undefined, 10, Undefined)
DataZero == DataGroup("zero", << GlobApi >>, Def("freshness"), 5, Def(0))

ConfigChoices ==
    << \* the end-to-end scenario: one group of top-level scripts
       Config(Def(<< AssetGroup("app", Undefined, Undefined,
                                Def(<< GlobRootJs >>), Undefined, Undefined) >>),
              Undefined, Undefined, Undefined),
       \* a later group whose globs match files of the earlier group too
       Config(Def(<< AssetGroup("app", Def("lazy"), Undefined,
                                Def(<< GlobRootJs, GlobNotVendor >>),
                                Def(<< GlobApi >>), Undefined),
                     AssetGroup("assets", Def("prefetch"), Def("lazy"),
                                Def(<< GlobStarStar >>), Undefined, Undefined) >>),
              Def(<< DataApi, DataZero >>), Undefined, Def("freshness")),
       \* the first group takes everything, so the later groups stay empty
       Config(Def(<< AssetGroup("all", Undefined, Def("lazy"),
                                Def(<< GlobStarStar >>), Undefined, Undefined),
                     AssetGroup("app", Undefined, Undefined,
                                Def(<< GlobRootJs >>), Undefined, Undefined),
                     AssetGroup("none", Undefined, Undefined,
                                Undefined, Undefined, Undefined) >>),
              Undefined, Def(<< GlobRootJs, GlobNotVendor >>), Undefined),
       \* a retired field after a group that has matched files
       Config(Def(<< AssetGroup("app", Undefined, Undefined,
                                Def(<< GlobStarStar >>), Undefined, Undefined),
                     AssetGroup("old", Undefined, Undefined,
                                Def(<< GlobRootJs >>), Undefined, Def(<< >>)),
                     AssetGroup("older", Undefined, Undefined,
                                Undefined, Undefined,
                                Def(<< GlobRootJs >>)) >>),
              Undefined, Undefined, Undefined),
       \* no asset groups at all
       Config(Undefined, Def(<< DataApi >>), Undefined, Undefined) >>

BaseHrefChoices == { << "/" >>, << "/", "b", "/" >> }

(***************************************************************************)
(* State.                                                                  *)
(***************************************************************************)
VARIABLES
    \* the matcher under test: the glob list, the candidate, the result of
    \* the matcher for the list and for the list without its last glob
    globs, candidate, isMatch, wasMatch,
    \* the inputs of the generator: the configuration (an index into
    \* ConfigChoices), the base href and the files of the snapshot
    config, baseHref, fsFiles,
    \* where the current call of process stands: "idle", "list" (awaiting
    \* fs.list), "hashing" (awaiting Promise.all), "done", "failed"
    pc,
    \* the locals of the current call that outlive one step
    seenMap, filesPerGroup, allMatchedFiles, unorderedHashTable,
    \* the hash lookups dispatched by the current call, by index into
    \* allMatchedFiles, and the indexes of the rejected ones in the order in
    \* which they were rejected
    lookups, rejections,
    \* the outcome of the current call: the manifest it returned or the
    \* error it was rejected with
    returned, thrown,
    \* the manifest the previous call returned, if it returned one
    prevReturned,
    \* whether fs.list gave the current call, and the previous call, the
    \* files in ascending order
    listAscending, prevListAscending,
    \* the last value Date.now() returned
    clock,
    \* the host calls of the current call of process, in the order made
    ioTrace,
    \* the URL functions under test: the two arguments, the result of
    \* joinUrls(urlA, urlB) and the url that urlToRegex(urlB, urlA) hands to
    \* the glob compiler, once they have been applied
    urlA, urlB, joined, prefixed,
    \* the service-worker registration: the options, whether the platform
    \* is a browser and whether navigator has serviceWorker
    swOptions, swBrowser, swSupported,
    \* where the initializer stands: "created", "ran" (it returned), "threw";
    \* the error it threw
    swPc, swThrown,
    \* the controllerchange listeners installed, navigator.serviceWorker
    \* .controller ("null" or the worker in control), the messages posted
    \* to controllers
    swListeners, swController, swPosted,
    \* the subscription to readyToRegister$ ("none", "open", "closed"), the
    \* timer of delay (its state "none", "armed", "fired" and its delay), the
    \* values the source of readyToRegister$ has emitted since the
    \* subscription, the calls of navigator.serviceWorker.register, and the
    \* events that have occurred
    swSubscription, swTimer, swEmitted, swRegistered, swEvents

matchVars == << globs, candidate, isMatch, wasMatch >>
inputVars == << config, baseHref, fsFiles >>
callVars ==
    << pc, seenMap, filesPerGroup, allMatchedFiles,
       unorderedHashTable, lookups, rejections, returned, thrown,
       prevReturned, listAscending, prevListAscending, clock, ioTrace >>
urlVars == << urlA, urlB, joined, prefixed >>
swVars ==
    << swOptions, swBrowser, swSupported, swPc, swThrown, swListeners,
       swController, swPosted, swSubscription, swTimer, swEmitted,
       swRegistered, swEvents >>
vars == << matchVars, inputVars, callVars, urlVars, swVars >>

Cfg == ConfigChoices[config]

(***************************************************************************)
(* SwRegistrationOptions (part_000:27-78).  registrationStrategy is unset, *)
(* a string or an Observable factory function.                             *)
(***************************************************************************)
StrategyUnset == [type |-> "undefined"]
StrategyString(value) == [type |-> "string", value |-> value]
StrategyFunction == [type |-> "function"]
SwRegistrationOptions(enabled, scope, registrationStrategy) ==
    [enabled |-> enabled, scope |-> scope,
     registrationStrategy |-> registrationStrategy]

\* no call of process has been made
CallIdle ==
    /\ pc = "idle"
    /\ seenMap = {}
    /\ filesPerGroup = << >>
    /\ allMatchedFiles = << >>
    /\ unorderedHashTable = << >>
    /\ lookups = << >>
    /\ rejections = << >>
    /\ returned = Undefined
    /\ thrown = Undefined
    /\ prevReturned = Undefined
    /\ listAscending = TRUE
    /\ prevListAscending = TRUE
    /\ clock = 0
    /\ ioTrace = << >>

\* the URL functions have not been applied
UrlIdle ==
    /\ urlA = << >>
    /\ urlB = << >>
    /\ joined = Undefined
    /\ prefixed = Undefined

\* no initializer has been created
SwIdle ==
    /\ swOptions = SwRegistrationOptions(Undefined, Undefined, StrategyUnset)
    /\ swBrowser = FALSE
    /\ swSupported = FALSE
    /\ swPc = "created"
    /\ swThrown = Undefined
    /\ swListeners = 0
    /\ swController = "null"
    /\ swPosted = << >>
    /\ swSubscription = "none"
    /\ swTimer = [state |-> "none", delay |-> 0]
    /\ swEmitted = << >>
    /\ swRegistered = << >>
    /\ swEvents = << >>

(***************************************************************************)
(* Generator.processAssetGroups (generator.mjs:41-73).                     *)
(***************************************************************************)
\* config.assetGroups || []
AssetGroups(cfg) == IF IsDef(cfg.assetGroups) THEN Val(cfg.assetGroups) ELSE << >>

\* the seen set kept from the call before instead of a new one
StaleSeenMap == seenMap

\* new Set() at line 44
NewSeenMap == {}

\* the Error thrown at lines 49-50
VersionedFilesError(group) ==
    [name |-> "Error",
     message |-> << "Asset-group '", group.name,
                    "' in 'ngsw-config.json' uses the 'versionedFiles' option, ",
                    "which is no longer supported. Use 'files' instead." >>]

\* the condition of line 48 taking an empty array for an absent field
UsesNonEmptyVersionedFiles(group) ==
    /\ IsDef(group.resources.versionedFiles)
    /\ Val(group.resources.versionedFiles) # << >>

\* the condition of line 48: any value but undefined is truthy here, the
\* empty array too
UsesVersionedFiles(group) == IsDef(group.resources.versionedFiles)

\* MatchedFiles without the filter on the seen set
MatchedFilesNoDedup(all, group, seen) ==
    LET globList == IF IsDef(group.resources.files)
                    THEN Val(group.resources.files) ELSE << >>
        fileMatcher(file) == globListToMatcher(globList, file)
    IN sort(SelectSeq(all, fileMatcher))

\* MatchedFiles without the sort
MatchedFilesUnsorted(all, group, seen) ==
    LET globList == IF IsDef(group.resources.files)
                    THEN Val(group.resources.files) ELSE << >>
        fileMatcher(file) == globListToMatcher(globList, file)
        unseen(file) == file \notin seen
    IN SelectSeq(SelectSeq(all, fileMatcher), unseen)

\* lines 52-53: the files of one group
MatchedFiles(all, group, seen) ==
    LET globList == IF IsDef(group.resources.files)
                    THEN Val(group.resources.files) ELSE << >>
        fileMatcher(file) == globListToMatcher(globList, file)
        unseen(file) == file \notin seen
    IN sort(SelectSeq(SelectSeq(all, fileMatcher), unseen))

\* the for loop of lines 47-56 after its first i iterations; a throw ends it
GroupLoop(groups, all) ==
    [i \in 0 .. Len(groups) |->
        LET L[k \in 0 .. i] ==
                IF k = 0
                THEN [seenMap |-> NewSeenMap, filesPerGroup |-> << >>,
                      thrown |-> Undefined]
                ELSE IF IsDef(L[k - 1].thrown) THEN L[k - 1]
                ELSE IF UsesVersionedFiles(groups[k])
                THEN [L[k - 1] EXCEPT
                          !.thrown = Def(VersionedFilesError(groups[k]))]
                ELSE LET matchedFiles ==
                             MatchedFiles(all, groups[k], L[k - 1].seenMap)
                     IN [seenMap |-> L[k - 1].seenMap \cup Range(matchedFiles),
                         filesPerGroup |->
                             Append(L[k - 1].filesPerGroup, matchedFiles),
                         thrown |-> Undefined]
        IN L[i]]

\* line 58
AllMatchedFiles(perGroup) == sort(concat(perGroup))

\* a hash lookup: pending, resolved with a hash, or rejected with an error
Pending == [status |-> "pending", value |-> ""]
Resolved(hash) == [status |-> "resolved", value |-> hash]
Rejected(file) == [status |-> "rejected", value |-> file]

\* the reason fs.hash(file) is rejected with
HashError(file) == [name |-> "HashError", message |-> << file >>]

\* the rejection that came last instead of the one that came first
PromiseAllLastRejection(rejected) == rejected[Len(rejected)]

\* Promise.all over the lookups: the index of the lookup whose rejection
\* rejects it
PromiseAllRejection(rejected) == Head(rejected)

PromiseAllState(all, rejected) ==
    IF rejected # << >> THEN "rejected"
    ELSE IF \A i \in DOMAIN all : all[i].status = "resolved" THEN "fulfilled"
    ELSE "pending"

\* the array Promise.all is fulfilled with
AllMatchedHashes(all) == [i \in DOMAIN all |-> all[i].value]

\* WriteHashTable with the file path, not its URL, as the key
WriteHashTableRawKeys(hashTable, base, files, hashes) ==
    LET W[i \in 0 .. Len(files)] ==
            IF i = 0 THEN hashTable
            ELSE ObjSet(W[i - 1], files[i], hashes[i])
    IN W[Len(files)]

\* lines 60-62
WriteHashTable(hashTable, base, files, hashes) ==
    LET W[i \in 0 .. Len(files)] ==
            IF i = 0 THEN hashTable
            ELSE ObjSet(W[i - 1], joinUrls(base, files[i]), hashes[i])
    IN W[Len(files)]

(***************************************************************************)
(* The host calls of one call of process, in the order the code makes      *)
(* them: fs.list (line 43), its result, the iterations of the loop of      *)
(* lines 47-56 that record a group's files, the fs.hash calls of line 59.  *)
(***************************************************************************)
IoEvent(op, arg) == [op |-> op, arg |-> arg]

\* PartitionTrace with the fs.hash calls for the files of a group made as
\* soon as the loop has recorded the group
PartitionHashingTrace(perGroup) ==
    << IoEvent("listed", 0) >>
        \o concat([g \in DOMAIN perGroup |->
                      << IoEvent("partition", g) >>
                          \o [i \in DOMAIN perGroup[g] |->
                                 IoEvent("fs.hash", i)]])

\* fs.list has resolved and the loop has recorded the files of these groups
PartitionTrace(perGroup) ==
    << IoEvent("listed", 0) >>
        \o [g \in DOMAIN perGroup |-> IoEvent("partition", g)]

\* the fs.hash calls made inside the loop, group by group
HashInLoopTrace(perGroup, allMatched) ==
    << IoEvent("listed", 0) >>
        \o concat([g \in DOMAIN perGroup |->
                      << IoEvent("partition", g) >>
                          \o [i \in DOMAIN perGroup[g] |->
                                 IoEvent("fs.hash",
                                         CHOOSE k \in DOMAIN allMatched :
                                             allMatched[k] = perGroup[g][i])]])

\* lines 43-59 without a throw: the loop, then one fs.hash call per matched
\* file in the order of allMatchedFiles
DispatchTrace(perGroup, allMatched) ==
    PartitionTrace(perGroup)
        \o [i \in DOMAIN allMatched |-> IoEvent("fs.hash", i)]

\* a || b for optional values
OrElse(a, b) == IF IsDef(a) THEN a ELSE b

\* EmitAssetGroup with an updateMode that does not fall back to installMode
EmitAssetGroupNoInherit(group, matchedFiles, base) ==
    [name |-> group.name,
     installMode |-> Val(OrElse(group.installMode, Def("prefetch"))),
     updateMode |-> Val(OrElse(group.updateMode, Def("prefetch"))),
     urls |-> [i \in DOMAIN matchedFiles |-> joinUrls(base, matchedFiles[i])],
     patterns |->
         LET urls == IF IsDef(group.resources.urls)
                     THEN Val(group.resources.urls) ELSE << >>
         IN [i \in DOMAIN urls |-> urlToRegex(urls[i], base, TRUE)]]

\* lines 65-72: the callback of map (cacheQueryOptions is a copy of the
\* declared options)
EmitAssetGroup(group, matchedFiles, base) ==
    [name |-> group.name,
     installMode |-> Val(OrElse(group.installMode, Def("prefetch"))),
     updateMode |->
         Val(OrElse(group.updateMode,
                    OrElse(group.installMode, Def("prefetch")))),
     urls |-> [i \in DOMAIN matchedFiles |-> joinUrls(base, matchedFiles[i])],
     patterns |->
         LET urls == IF IsDef(group.resources.urls)
                     THEN Val(group.resources.urls) ELSE << >>
         IN [i \in DOMAIN urls |-> urlToRegex(urls[i], base, TRUE)]]

\* EmitAssetGroups that leaves out the groups without a matched file
EmitAssetGroupsDropEmpty(groups, perGroup, base) ==
    LET kept == SelectSeq([g \in DOMAIN perGroup |-> g],
                          LAMBDA g : perGroup[g] # << >>)
    IN [k \in DOMAIN kept |->
           EmitAssetGroup(groups[kept[k]], perGroup[kept[k]], base)]

\* lines 63-72: one entry per entry of filesPerGroup, in insertion order
EmitAssetGroups(groups, perGroup, base) ==
    [g \in DOMAIN perGroup |-> EmitAssetGroup(groups[g], perGroup[g], base)]

(***************************************************************************)
(* Generator.processDataGroups (generator.mjs:74-87); the durations and    *)
(* cacheQueryOptions are copies of the declared values and are left out.   *)
(***************************************************************************)
\* processDataGroups with `version || 1` on line 84
processDataGroupsVersionOrOne(cfg, base) ==
    LET groups == IF IsDef(cfg.dataGroups) THEN Val(cfg.dataGroups) ELSE << >>
    IN [g \in DOMAIN groups |->
           [name |-> groups[g].name,
            patterns |-> [i \in DOMAIN groups[g].urls |->
                              urlToRegex(groups[g].urls[i], base, TRUE)],
            strategy |->
                Val(OrElse(groups[g].cacheConfig.strategy, Def("performance"))),
            maxSize |-> groups[g].cacheConfig.maxSize,
            version |-> IF IsDef(groups[g].version) /\ Val(groups[g].version) # 0
                        THEN Val(groups[g].version) ELSE 1]]

processDataGroups(cfg, base) ==
    LET groups == IF IsDef(cfg.dataGroups) THEN Val(cfg.dataGroups) ELSE << >>
    IN [g \in DOMAIN groups |->
           [name |-> groups[g].name,
            patterns |-> [i \in DOMAIN groups[g].urls |->
                              urlToRegex(groups[g].urls[i], base, TRUE)],
            strategy |->
                Val(OrElse(groups[g].cacheConfig.strategy, Def("performance"))),
            maxSize |-> groups[g].cacheConfig.maxSize,
            version |-> IF IsDef(groups[g].version)
                        THEN Val(groups[g].version) ELSE 1]]

(***************************************************************************)
(* Generator.process (generator.mjs:26-40).                                *)
(***************************************************************************)
Manifest(cfg, base, now, assetGroups, hashTable) ==
    [configVersion |-> 1,
     timestamp |-> now,
     appData |-> cfg.appData,
     index |-> joinUrls(base, cfg.index),
     assetGroups |-> assetGroups,
     dataGroups |-> processDataGroups(cfg, base),
     hashTable |-> withOrderedKeys(hashTable),
     navigationUrls |-> processNavigationUrls(base, cfg.navigationUrls),
     navigationRequestStrategy |->
         Val(OrElse(cfg.navigationRequestStrategy, Def("performance")))]

Init ==
    /\ globs = << >>
    /\ candidate = << >>
    /\ isMatch = FALSE
    /\ wasMatch = FALSE
    /\ config \in DOMAIN ConfigChoices
    /\ baseHref \in BaseHrefChoices
    /\ fsFiles \in { S \in SUBSET FileChoices : Cardinality(S) <= MaxFiles }
    /\ CallIdle
    /\ UrlIdle
    /\ SwIdle

\* process(config) is called: lines 27-28 and 43, up to the await of fs.list.
\* The caller has awaited the call before, if there was one.
Process ==
    /\ pc \in { "idle", "done", "failed" }
    /\ pc' = "list"
    /\ unorderedHashTable' = << >>
    /\ filesPerGroup' = << >>
    /\ allMatchedFiles' = << >>
    /\ lookups' = << >>
    /\ rejections' = << >>
    /\ returned' = Undefined
    /\ thrown' = Undefined
    /\ prevReturned' = returned
    /\ prevListAscending' = listAscending
    /\ ioTrace' = << IoEvent("fs.list", 0) >>
    /\ UNCHANGED << seenMap, listAscending, clock, matchVars, inputVars,
                    urlVars, swVars >>

\* fs.list resolves (the host's list is taken to succeed) with the files in
\* some order, and a group of the configuration declares versionedFiles:
\* lines 44-51, the throw rejects processAssetGroups and process
ListResolvedThrow(list) ==
    /\ pc = "list"
    /\ LET loop == GroupLoop(AssetGroups(Cfg), list)[Len(AssetGroups(Cfg))]
       IN /\ IsDef(loop.thrown)
          /\ seenMap' = loop.seenMap
          /\ filesPerGroup' = loop.filesPerGroup
          /\ thrown' = loop.thrown
          /\ ioTrace' = ioTrace \o PartitionTrace(loop.filesPerGroup)
    /\ listAscending' = IsStrictlyAscending(list)
    /\ pc' = "failed"
    /\ UNCHANGED << allMatchedFiles, unorderedHashTable, lookups, rejections,
                    returned, prevReturned, prevListAscending, clock,
                    matchVars, inputVars, urlVars, swVars >>

\* fs.list resolves with the files in some order: lines 44-59, up to the
\* await of Promise.all, with one fs.hash lookup dispatched per matched file
ListResolvedDispatch(list) ==
    /\ pc = "list"
    /\ LET loop == GroupLoop(AssetGroups(Cfg), list)[Len(AssetGroups(Cfg))]
       IN /\ ~IsDef(loop.thrown)
          /\ seenMap' = loop.seenMap
          /\ filesPerGroup' = loop.filesPerGroup
          /\ allMatchedFiles' = AllMatchedFiles(loop.filesPerGroup)
          /\ ioTrace' = ioTrace \o DispatchTrace(loop.filesPerGroup,
                                                  allMatchedFiles')
    /\ lookups' = [i \in DOMAIN allMatchedFiles' |-> Pending]
    /\ listAscending' = IsStrictlyAscending(list)
    /\ pc' = "hashing"
    /\ UNCHANGED << unorderedHashTable, rejections, returned, thrown,
                    prevReturned, prevListAscending, clock,
                    matchVars, inputVars, urlVars, swVars >>

\* one fs.hash lookup resolves
HashResolve(i) ==
    /\ pc = "hashing"
    /\ UNCHANGED ioTrace
    /\ lookups[i] = Pending
    /\ lookups' = [lookups EXCEPT ![i] = Resolved(FsHash(allMatchedFiles[i]))]
    /\ UNCHANGED << pc, seenMap, filesPerGroup, allMatchedFiles,
                    unorderedHashTable, rejections, returned, thrown,
                    prevReturned, listAscending, prevListAscending, clock,
                    matchVars, inputVars, urlVars, swVars >>

\* one fs.hash lookup is rejected
HashReject(i) ==
    /\ pc = "hashing"
    /\ UNCHANGED ioTrace
    /\ lookups[i] = Pending
    /\ lookups' = [lookups EXCEPT ![i] = Rejected(allMatchedFiles[i])]
    /\ rejections' = Append(rejections, i)
    /\ UNCHANGED << pc, seenMap, filesPerGroup, allMatchedFiles,
                    unorderedHashTable, returned, thrown,
                    prevReturned, listAscending, prevListAscending, clock,
                    matchVars, inputVars, urlVars, swVars >>

\* the await of line 59 throws: Promise.all was rejected
AwaitRejected ==
    /\ pc = "hashing"
    /\ UNCHANGED ioTrace
    /\ PromiseAllState(lookups, rejections) = "rejected"
    /\ thrown' = Def(HashError(lookups[PromiseAllRejection(rejections)].value))
    /\ pc' = "failed"
    /\ UNCHANGED << seenMap, filesPerGroup, allMatchedFiles,
                    unorderedHashTable, lookups, rejections, returned,
                    prevReturned, listAscending, prevListAscending, clock,
                    matchVars, inputVars, urlVars, swVars >>

\* the await of line 59 returns: lines 60-72 and 29-39; Date.now() returns
\* a time that is not before the time it returned last
AwaitFulfilled(now) ==
    /\ pc = "hashing"
    /\ UNCHANGED ioTrace
    /\ PromiseAllState(lookups, rejections) = "fulfilled"
    /\ now >= clock
    /\ clock' = now
    /\ unorderedHashTable' =
           WriteHashTable(unorderedHashTable, baseHref, allMatchedFiles,
                          AllMatchedHashes(lookups))
    /\ returned' =
           Def(Manifest(Cfg, baseHref, now,
                        EmitAssetGroups(AssetGroups(Cfg), filesPerGroup, baseHref),
                        unorderedHashTable'))
    /\ pc' = "done"
    /\ UNCHANGED << seenMap, filesPerGroup, allMatchedFiles,
                    lookups, rejections, thrown,
                    prevReturned, listAscending, prevListAscending,
                    matchVars, inputVars, urlVars, swVars >>

Next ==
    \/ Process
    \/ \E list \in ListOrders(fsFiles) : ListResolvedThrow(list)
    \/ \E list \in ListOrders(fsFiles) : ListResolvedDispatch(list)
    \/ \E i \in DOMAIN lookups : HashResolve(i)
    \/ \E i \in DOMAIN lookups : HashReject(i)
    \/ AwaitRejected
    \/ \E now \in 0 .. MaxClock : AwaitFulfilled(now)

Spec == Init /\ [][Next]_vars

(***************************************************************************)
(* What the claims about process speak of.                                 *)
(***************************************************************************)
Groups == AssetGroups(Cfg)
\* the file glob list of group g matches the file
GroupMatches(g, file) ==
    globListToMatcher(IF IsDef(Groups[g].resources.files)
                      THEN Val(Groups[g].resources.files) ELSE << >>, file)
MatchingGroups(file) == { g \in DOMAIN Groups : GroupMatches(g, file) }
UrlOf(file) == joinUrls(baseHref, file)
ReturnedUrls(g) == Range(Val(returned).assetGroups[g].urls)
AllReturnedUrls == UNION { ReturnedUrls(g) : g \in DOMAIN Val(returned).assetGroups }
ExceptTimestamp(manifest) == [manifest EXCEPT !.timestamp = 0]

(***************************************************************************)
(* C1: in a returned manifest, the URL of every file of the snapshot is in *)
(* the urls of the first group, in configuration order, whose file globs   *)
(* match it, and in the urls of no other group.                            *)
(***************************************************************************)
C1_FirstMatchingGroupOnly ==
    IsDef(returned) =>
        \A file \in fsFiles : \A g \in DOMAIN Groups :
            UrlOf(file) \in ReturnedUrls(g)
                <=> /\ g \in MatchingGroups(file)
                    /\ \A h \in MatchingGroups(file) : g <= h

\* a manifest was returned for a file that two groups match
C1_Witness ==
    /\ IsDef(returned)
    /\ \E file \in fsFiles : Cardinality(MatchingGroups(file)) >= 2

(***************************************************************************)
(* C2: in a returned manifest, the keys of hashTable are exactly the URLs  *)
(* of the urls lists, each key occurs once, every matched file has its     *)
(* URL as a key with the hash fs.hash gave for that file as the value, and *)
(* no unmatched file has a key.                                            *)
(***************************************************************************)
C2_HashCompleteness ==
    IsDef(returned) =>
        LET table == Val(returned).hashTable
            keys == ObjKeys(table)
        IN /\ Range(keys) = AllReturnedUrls
           /\ \A i, j \in DOMAIN keys : keys[i] = keys[j] => i = j
           /\ \A file \in fsFiles :
                  IF MatchingGroups(file) # {}
                  THEN /\ UrlOf(file) \in Range(keys)
                       /\ ObjGet(table, UrlOf(file)) = FsHash(file)
                  ELSE UrlOf(file) \notin Range(keys)

\* a manifest was returned with a matched and an unmatched file
C2_Witness ==
    /\ IsDef(returned)
    /\ Len(Val(returned).hashTable) >= 2
    /\ \E file \in fsFiles : MatchingGroups(file) = {}

(***************************************************************************)
(* C3: the keys of the hashTable of a returned manifest are in strictly    *)
(* ascending order, in whatever order the entries were inserted into the   *)
(* unordered table.                                                        *)
(***************************************************************************)
C3_SortedKeys ==
    IsDef(returned) => IsStrictlyAscending(ObjKeys(Val(returned).hashTable))

\* a manifest was returned whose entries were not inserted in ascending order
C3_Witness ==
    /\ IsDef(returned)
    /\ ~IsStrictlyAscending(ObjKeys(unorderedHashTable))

(***************************************************************************)
(* C4: two calls of process on the same configuration, base href and       *)
(* snapshot return manifests that are equal in every field but timestamp,  *)
(* in whatever order the hash lookups of either call completed (and in     *)
(* whatever order fs.list gave the files to either call).                  *)
(***************************************************************************)
C4_Determinism ==
    (IsDef(returned) /\ IsDef(prevReturned)) =>
        ExceptTimestamp(Val(returned)) = ExceptTimestamp(Val(prevReturned))

\* two calls were given the same list, hashed several files, and returned
\* manifests that differ in timestamp
C4_Witness ==
    /\ IsDef(returned)
    /\ IsDef(prevReturned)
    /\ listAscending
    /\ prevListAscending
    /\ Len(lookups) >= 2
    /\ Val(returned).timestamp # Val(prevReturned).timestamp

(***************************************************************************)
(* C5: two calls of process for which fs.list gives the same files in      *)
(* different orders return the same hashTable (same keys, same order, same *)
(* values) and the same urls list for every asset group.                   *)
(***************************************************************************)
C5_ListOrderIndependence ==
    (IsDef(returned) /\ IsDef(prevReturned)) =>
        /\ Val(returned).hashTable = Val(prevReturned).hashTable
        /\ Len(Val(returned).assetGroups) = Len(Val(prevReturned).assetGroups)
        /\ \A g \in DOMAIN Val(returned).assetGroups :
               Val(returned).assetGroups[g].urls
                   = Val(prevReturned).assetGroups[g].urls

\* two calls were given the files in different orders and returned manifests
C5_Witness ==
    /\ IsDef(returned)
    /\ IsDef(prevReturned)
    /\ listAscending # prevListAscending
    /\ Len(Val(returned).hashTable) >= 2

(***************************************************************************)
(* C6: once a hash lookup of a call has been rejected, the call returns no *)
(* manifest and writes no entry to the hash table; its await of            *)
(* Promise.all throws, and the error process is rejected with is the error *)
(* of the lookup that was rejected first.                                  *)
(***************************************************************************)
C6_FirstHashErrorNoManifest ==
    rejections # << >> =>
        /\ pc \in { "hashing", "failed" }
        /\ ~IsDef(returned)
        /\ unorderedHashTable = << >>
        /\ pc = "hashing" => PromiseAllState(lookups, rejections) = "rejected"
        /\ pc = "failed" =>
               thrown = Def(HashError(allMatchedFiles[rejections[1]]))

\* process was rejected after a lookup resolved and two were rejected
C6_Witness ==
    /\ pc = "failed"
    /\ Len(rejections) >= 2
    /\ \E i \in DOMAIN lookups : lookups[i].status = "resolved"

GlobRootAll == << "/", "*", "*" >>
GlobNotDotted == << "!", "/", "*", "*", "/", "*", ".", "*" >>
GlobDotted == << "/", "*", "*", "/", "*", ".", "*" >>
GlobNotUnderscore == << "!", "/", "*", "*", "/", "*", "_", "_", "*" >>
GlobChoices ==
    { GlobStarStar, GlobRootAll, GlobNotDotted, GlobDotted, GlobNotUnderscore }

AppMainJs == << "a", "p", "p", "/", "m", "a", "i", "n", ".", "j", "s" >>
AppMain == << "a", "p", "p", "/", "m", "a", "i", "n" >>
SlashAppMainJs == << "/" >> \o AppMainJs
SlashAppMain == << "/" >> \o AppMain
SlashAppUnderscore == << "/", "a", "p", "p", "/", "a", "_", "_", "b" >>
CandidateChoices ==
    { AppMainJs, AppMain, SlashAppMainJs, SlashAppMain, SlashAppUnderscore }

MatchInit ==
    /\ candidate \in CandidateChoices
    /\ globs = << >>
    /\ isMatch = globListToMatcher(<< >>, candidate)
    /\ wasMatch = FALSE
    /\ config = 1
    /\ baseHref = << "/" >>
    /\ fsFiles = {}
    /\ CallIdle
    /\ UrlIdle
    /\ SwIdle

AppendGlob(g) ==
    /\ Len(globs) < MaxGlobs
    /\ globs' = Append(globs, g)
    /\ isMatch' = globListToMatcher(globs', candidate)
    /\ wasMatch' = isMatch
    /\ UNCHANGED << candidate, inputVars, callVars, urlVars, swVars >>

MatchNext == \E g \in GlobChoices : AppendGlob(g)

MatchSpec == MatchInit /\ [][MatchNext]_vars

\* the compiled patterns of the list under test, and which of them test true
Patterns == [i \in DOMAIN globs |-> CompilePattern(globs[i])]
PositiveHits ==
    { i \in DOMAIN globs :
        Patterns[i].positive /\ RegExpTest(Patterns[i].regex, candidate) }
NegativeHits ==
    { i \in DOMAIN globs :
        ~Patterns[i].positive /\ RegExpTest(Patterns[i].regex, candidate) }
Max(S) == CHOOSE x \in S : \A y \in S : y <= x

(***************************************************************************)
(* C8, as stated: the matcher is true iff at least one positive pattern    *)
(* of the list matches the candidate and no negative pattern of the list   *)
(* does.  The fold refutes it: a negative pattern placed before the        *)
(* positive pattern that matches excludes nothing.                         *)
(***************************************************************************)
C8_AnyPositiveNoNegative ==
    isMatch <=> (PositiveHits # {} /\ NegativeHits = {})

(***************************************************************************)
(* C8, amended: the matcher is true iff at least one positive pattern      *)
(* matches the candidate and no negative pattern that comes after the last *)
(* matching positive pattern matches it.                                   *)
(***************************************************************************)
C8_NoNegativeAfterLastPositive ==
    isMatch <=> /\ PositiveHits # {}
                /\ \A j \in NegativeHits : j < Max(PositiveHits)

\* a negative pattern that matches precedes the positive pattern that matches
C8_Witness ==
    /\ isMatch
    /\ PositiveHits # {}
    /\ NegativeHits # {}

(***************************************************************************)
(* C9: appending a positive pattern never turns a match into a non-match,  *)
(* appending a negative pattern never turns a non-match into a match, and  *)
(* a list without a positive pattern (the empty list too) matches nothing. *)
(***************************************************************************)
C9_FoldMonotone ==
    /\ (globs # << >> /\ Patterns[Len(globs)].positive) => (wasMatch => isMatch)
    /\ (globs # << >> /\ ~Patterns[Len(globs)].positive) => (isMatch => wasMatch)
    /\ (\A i \in DOMAIN globs : ~Patterns[i].positive) => ~isMatch

\* a negative pattern has just turned a match, made by a positive one, off
C9_Witness ==
    /\ Len(globs) >= 2
    /\ Patterns[1].positive
    /\ ~Patterns[Len(globs)].positive
    /\ wasMatch
    /\ ~isMatch

(***************************************************************************)
(* C10, as stated: with the list ["**", "!/**/*.*"], "app/main.js" does    *)
(* not match and "app/main" matches.                                       *)
(***************************************************************************)
C10_AsStated ==
    globs = << GlobStarStar, GlobNotDotted >> =>
        /\ candidate = AppMainJs => ~isMatch
        /\ candidate = AppMain => isMatch

(***************************************************************************)
(* C10, amended: with the list ["**", "!/**/*.*"], "app/main.js" and       *)
(* "app/main" both match, because the anchored negative pattern starts     *)
(* with "/" and neither candidate does; "/app/main.js" does not match and  *)
(* "/app/main" matches.                                                    *)
(***************************************************************************)
C10_AnchoredFold ==
    globs = << GlobStarStar, GlobNotDotted >> =>
        /\ candidate = AppMainJs => isMatch
        /\ candidate = AppMain => isMatch
        /\ candidate = SlashAppMainJs => ~isMatch
        /\ candidate = SlashAppMain => isMatch

C10_Witness ==
    /\ globs = << GlobStarStar, GlobNotDotted >>
    /\ candidate = AppMainJs
    /\ isMatch

(***************************************************************************)
(* What the claims about the order of the host calls speak of.             *)
(***************************************************************************)
\* the positions of the events of one kind in the trace of the current call
IoIndexes(op) == { i \in DOMAIN ioTrace : ioTrace[i].op = op }

(***************************************************************************)
(* C14: in one call of process, fs.list is called exactly once, as the     *)
(* first host call; its completion precedes the partitioning of every      *)
(* group; every fs.hash call comes after the partitioning of all the       *)
(* configured groups and so after the completion of fs.list; one fs.hash   *)
(* call is made per matched file.                                          *)
(***************************************************************************)
C14_ListThenPartitionThenHash ==
    pc # "idle" =>
        /\ Cardinality(IoIndexes("fs.list")) = 1
        /\ ioTrace[1].op = "fs.list"
        /\ Cardinality(IoIndexes("listed")) <= 1
        /\ \A p \in IoIndexes("partition") :
               \E l \in IoIndexes("listed") : 1 < l /\ l < p
        /\ \A h \in IoIndexes("fs.hash") :
               /\ \E l \in IoIndexes("listed") : l < h
               /\ \A g \in DOMAIN Groups :
                      \E p \in IoIndexes("partition") :
                          ioTrace[p].arg = g /\ p < h
               /\ \A p \in IoIndexes("partition") : p < h
        /\ pc \in { "hashing", "done" } =>
               /\ Cardinality(IoIndexes("partition")) = Len(Groups)
               /\ Cardinality(IoIndexes("fs.hash")) = Len(allMatchedFiles)

\* a call over two groups or more has issued two hash lookups or more
C14_Witness ==
    /\ pc = "done"
    /\ Len(Groups) >= 2
    /\ Cardinality(IoIndexes("fs.hash")) >= 2
    /\ \E g \in DOMAIN filesPerGroup : g >= 2 /\ filesPerGroup[g] # << >>

(***************************************************************************)
(* What the claims about the emitted groups speak of.                      *)
(***************************************************************************)
\* config.dataGroups || []
DataGroups == IF IsDef(Cfg.dataGroups) THEN Val(Cfg.dataGroups) ELSE << >>
\* every file of the snapshot is an absolute path
SnapshotAbsolute == \A file \in fsFiles : startsWith(file, "/")

(***************************************************************************)
(* C17: in a returned manifest, the installMode of every asset group is    *)
(* the declared installMode, or "prefetch" when none is declared; its      *)
(* updateMode is the declared updateMode, else the declared installMode,   *)
(* else "prefetch".  A group that declares only installMode "lazy" has     *)
(* updateMode "lazy".                                                      *)
(***************************************************************************)
C17_ModeDefaults ==
    IsDef(returned) =>
        \A g \in DOMAIN Val(returned).assetGroups :
            LET declared == Groups[g]
                emitted == Val(returned).assetGroups[g]
            IN /\ emitted.installMode =
                      IF IsDef(declared.installMode)
                      THEN Val(declared.installMode) ELSE "prefetch"
               /\ emitted.updateMode =
                      IF IsDef(declared.updateMode)
                      THEN Val(declared.updateMode)
                      ELSE IF IsDef(declared.installMode)
                           THEN Val(declared.installMode) ELSE "prefetch"
               /\ (declared.installMode = Def("lazy")
                       /\ ~IsDef(declared.updateMode)) =>
                      emitted.updateMode = "lazy"

\* a manifest with a group that declares installMode "lazy" and no updateMode,
\* and a group that declares an updateMode other than its installMode
C17_Witness ==
    /\ IsDef(returned)
    /\ \E g \in DOMAIN Val(returned).assetGroups :
           /\ Groups[g].installMode = Def("lazy")
           /\ ~IsDef(Groups[g].updateMode)
           /\ Val(returned).assetGroups[g].updateMode = "lazy"
    /\ \E g \in DOMAIN Val(returned).assetGroups :
           /\ IsDef(Groups[g].updateMode)
           /\ Groups[g].updateMode # Groups[g].installMode
           /\ Val(returned).assetGroups[g].updateMode = "lazy"
           /\ Val(returned).assetGroups[g].installMode = "prefetch"

C19_PerGroupOrdering ==
    (IsDef(returned) /\ SnapshotAbsolute) =>
        LET emitted == Val(returned).assetGroups
        IN /\ Len(emitted) = Len(Groups)
           /\ \A g \in DOMAIN Groups :
                  /\ emitted[g].name = Groups[g].name
                  /\ IsStrictlyAscending(emitted[g].urls)
                  /\ Range(emitted[g].urls) =
                         { UrlOf(file) : file \in
                               { f \in fsFiles :
                                     /\ g \in MatchingGroups(f)
                                     /\ \A h \in MatchingGroups(f) : g <= h } }

\* a manifest from a list that was not ascending, with a group of two urls
\* or more and a group without any
C19_Witness ==
    /\ IsDef(returned)
    /\ SnapshotAbsolute
    /\ ~listAscending
    /\ \E g \in DOMAIN Groups : Len(Val(returned).assetGroups[g].urls) >= 2
    /\ \E g \in DOMAIN Groups : Val(returned).assetGroups[g].urls = << >>

(***************************************************************************)
(* C13: when the configuration declares no navigationUrls, a returned      *)
(* manifest has the four default navigation patterns in the order of the   *)
(* default list, the first positive and the other three negative; with     *)
(* base "/" the fold over them includes "/foo/bar" and excludes            *)
(* "/foo/bar.js", "/foo/a__b" and "/foo/a__b/c".                           *)
(***************************************************************************)
FooBar == << "/", "f", "o", "o", "/", "b", "a", "r" >>
FooBarJs == FooBar \o << ".", "j", "s" >>
FooA__b == << "/", "f", "o", "o", "/", "a", "_", "_", "b" >>
FooA__bC == FooA__b \o << "/", "c" >>

C13_DefaultNavigationUrls ==
    (IsDef(returned) /\ ~IsDef(Cfg.navigationUrls)) =>
        LET nav == Val(returned).navigationUrls
        IN /\ Len(nav) = 4
           /\ [i \in DOMAIN nav |-> nav[i].positive]
                  = << TRUE, FALSE, FALSE, FALSE >>
           /\ \A i \in DOMAIN nav :
                  nav[i].regex =
                      AnchoredRegExp(
                          urlToRegex(IF i = 1 THEN DEFAULT_NAVIGATION_URLS[i]
                                     ELSE substr1(DEFAULT_NAVIGATION_URLS[i]),
                                     baseHref, FALSE))
           /\ baseHref = << "/" >> =>
                  /\ matches(FooBar, nav)
                  /\ ~matches(FooBarJs, nav)
                  /\ ~matches(FooA__b, nav)
                  /\ ~matches(FooA__bC, nav)

\* a manifest for base "/" from a configuration without navigationUrls
C13_Witness ==
    /\ IsDef(returned)
    /\ ~IsDef(Cfg.navigationUrls)
    /\ baseHref = << "/" >>
    /\ Len(Val(returned).navigationUrls) = 4
    /\ matches(FooBar, Val(returned).navigationUrls)

(***************************************************************************)
(* The URL functions on their own (generator.mjs:124-141): joinUrls and    *)
(* urlToRegex applied to a base and a url.                                 *)
(***************************************************************************)
\* all strings over an alphabet up to a length
Strings(alphabet, n) == UNION { [1 .. k -> alphabet] : k \in 0 .. n }

BaseSlash == << "/", "b", "a", "s", "e", "/" >>
BaseNoSlash == << "/", "b", "a", "s", "e" >>
DotFooSlash == << ".", "/", "f", "o", "o", "/" >>
\* the first argument of joinUrls, the baseHref of urlToRegex
BaseChoices ==
    Strings({ ".", "/", "f" }, MaxUrlLen)
        \cup { BaseSlash, BaseNoSlash, DotFooSlash }
\* the second argument of joinUrls, the url of urlToRegex
UrlChoices ==
    Strings({ "/", ":", "x" }, MaxUrlLen)
        \cup { << "x", ":", "/", "/", "x" >>, << "x", "?" >> }

UrlInit ==
    /\ globs = << >>
    /\ candidate = << >>
    /\ isMatch = FALSE
    /\ wasMatch = FALSE
    /\ config = 1
    /\ baseHref = << "/" >>
    /\ fsFiles = {}
    /\ CallIdle
    /\ SwIdle
    /\ urlA \in BaseChoices
    /\ urlB \in UrlChoices
    /\ joined = Undefined
    /\ prefixed = Undefined

\* joinUrls(urlA, urlB) is called
JoinUrls ==
    /\ joined' = Def(joinUrls(urlA, urlB))
    /\ UNCHANGED << urlA, urlB, prefixed, matchVars, inputVars, callVars,
                    swVars >>

\* urlToRegex(urlB, urlA, literalQuestionMark) is called
UrlToRegex(literalQuestionMark) ==
    /\ prefixed' =
           Def([url |-> PrefixedUrl(urlB, urlA),
                literalQuestionMark |-> literalQuestionMark,
                regex |-> urlToRegex(urlB, urlA, literalQuestionMark)])
    /\ UNCHANGED << urlA, urlB, joined, matchVars, inputVars, callVars,
                    swVars >>

UrlNext ==
    \/ JoinUrls
    \/ \E literalQuestionMark \in BOOLEAN : UrlToRegex(literalQuestionMark)

UrlSpec == UrlInit /\ [][UrlNext]_vars

\* a without one trailing "/", b without one leading "/"
DropTrailingSlash(a) ==
    IF Len(a) > 0 /\ a[Len(a)] = "/" THEN SubSeq(a, 1, Len(a) - 1) ELSE a
DropLeadingSlash(b) ==
    IF Len(b) > 0 /\ b[1] = "/" THEN SubSeq(b, 2, Len(b)) ELSE b
\* the url does not start with "/" and has no "://" in it
IsRelativeUrl(url) ==
    /\ ~(Len(url) > 0 /\ url[1] = "/")
    /\ \A i \in 1 .. Len(url) - 2 :
           ~(url[i] = ":" /\ url[i + 1] = "/" /\ url[i + 2] = "/")
\* the base without a leading "./", and without a leading "." that has a
\* "/" after it
WithoutLeadingDotSlash(base) ==
    IF Len(base) >= 2 /\ base[1] = "." /\ base[2] = "/"
    THEN SubSeq(base, 3, Len(base)) ELSE base
WithoutDotBeforeSlash(base) ==
    IF Len(base) >= 2 /\ base[1] = "." /\ base[2] = "/"
    THEN SubSeq(base, 2, Len(base)) ELSE base
SlashBaseX == << "/", "b", "a", "s", "e", "/", "x" >>

(***************************************************************************)
(* C11: joinUrls(a, b) is a without one trailing "/", then "/", then b     *)
(* without one leading "/"; joining "/base/" with "/x", "/base" with "x"   *)
(* and "/base/" with "x" gives "/base/x".                                  *)
(***************************************************************************)
C11_JoinWithOneSlash ==
    IsDef(joined) =>
        /\ Val(joined) =
               DropTrailingSlash(urlA) \o << "/" >> \o DropLeadingSlash(urlB)
        /\ (urlA = BaseSlash /\ urlB = << "/", "x" >>) =>
               Val(joined) = SlashBaseX
        /\ (urlA = BaseNoSlash /\ urlB = << "x" >>) => Val(joined) = SlashBaseX
        /\ (urlA = BaseSlash /\ urlB = << "x" >>) => Val(joined) = SlashBaseX

\* "/base/" has been joined with "/x"
C11_Witness ==
    /\ urlA = BaseSlash
    /\ urlB = << "/", "x" >>
    /\ joined = Def(SlashBaseX)

(***************************************************************************)
(* C12, as stated: a url is relative exactly when it does not start with   *)
(* "/" and has no "://" in it; urlToRegex compiles a relative url joined   *)
(* to the base without its leading "./", and an absolute url as it is.     *)
(***************************************************************************)
C12_AsStated ==
    IsDef(prefixed) =>
        Val(prefixed).url =
            IF IsRelativeUrl(urlB)
            THEN joinUrls(WithoutLeadingDotSlash(urlA), urlB)
            ELSE urlB

(***************************************************************************)
(* C12, amended: a url is relative exactly when it does not start with     *)
(* "/" and has no "://" in it; urlToRegex compiles a relative url joined   *)
(* to the base without its leading ".", which is dropped only when a "/"   *)
(* follows it, so that the base "./foo/" contributes "/foo/"; it compiles  *)
(* an absolute url as it is, without the base.                             *)
(***************************************************************************)
C12_StripsDotBeforeSlash ==
    IsDef(prefixed) =>
        /\ Val(prefixed).url =
               IF IsRelativeUrl(urlB)
               THEN joinUrls(WithoutDotBeforeSlash(urlA), urlB)
               ELSE urlB
        /\ Val(prefixed).regex =
               globToRegex(Val(prefixed).url, Val(prefixed).literalQuestionMark)
        /\ (urlA = DotFooSlash /\ urlB = << "x" >>) =>
               Val(prefixed).url = << "/", "f", "o", "o", "/", "x" >>

\* urlToRegex has been applied to the relative url "x" and the base "./foo/"
C12_Witness ==
    /\ IsDef(prefixed)
    /\ urlA = DotFooSlash
    /\ urlB = << "x" >>
    /\ Val(prefixed).url = << "/", "f", "o", "o", "/", "x" >>


(***************************************************************************)
(* The registration of the service worker (part_000:88-145).               *)
(***************************************************************************)
RegisterImmediately == << "r", "e", "g", "i", "s", "t", "e", "r", "I", "m", "m", "e", "d", "i", "a", "t", "e", "l", "y" >>
RegisterWithDelay == << "r", "e", "g", "i", "s", "t", "e", "r", "W", "i", "t", "h", "D", "e", "l", "a", "y" >>
RegisterWhenStable == << "r", "e", "g", "i", "s", "t", "e", "r", "W", "h", "e", "n", "S", "t", "a", "b", "l", "e" >>
Bogus == << "b", "o", "g", "u", "s" >>

\* String.prototype.split with a one-character separator
RECURSIVE split(_, _)
split(s, separator) ==
    IF \A i \in DOMAIN s : s[i] # separator THEN << s >>
    ELSE LET k == CHOOSE i \in DOMAIN s :
                      s[i] = separator /\ \A j \in 1 .. i - 1 : s[j] # separator
         IN << SubSeq(s, 1, k - 1) >> \o split(SubSeq(s, k + 1, Len(s)), separator)

\* unary plus on an optional string: the empty string is 0, a string of
\* decimal digits is its value, undefined and any other string of the
\* strategies here is NaN (no value)
Digits == << "0", "1", "2", "3", "4", "5", "6", "7", "8", "9" >>
DigitValue(c) == (CHOOSE d \in DOMAIN Digits : Digits[d] = c) - 1
NaN == Undefined
ToNumber(arg) ==
    IF ~IsDef(arg) THEN NaN
    ELSE IF \E i \in DOMAIN Val(arg) : Val(arg)[i] \notin Range(Digits) THEN NaN
    ELSE LET s == Val(arg)
             N[i \in 0 .. Len(s)] ==
                 IF i = 0 THEN 0 ELSE N[i - 1] * 10 + DigitValue(s[i])
         IN Def(N[Len(s)])

\* line 121: +args[0] || 0
DelayMs(args) ==
    LET n == ToNumber(IF args = << >> THEN Undefined ELSE Def(args[1]))
    IN IF IsDef(n) /\ Val(n) # 0 THEN Val(n) ELSE 0

\* lines 94-95 with the test of options.enabled left out
ShouldRegisterWhateverEnabled(browser, supported, enabled) ==
    browser /\ supported

\* lines 94-95: the condition under which the initializer goes on
ShouldRegister(browser, supported, enabled) ==
    browser /\ supported /\ enabled # Def(FALSE)

\* line 115: options.registrationStrategy || 'registerWhenStable'
StrategyOrDefault(registrationStrategy) ==
    IF registrationStrategy.type = "string" /\ registrationStrategy.value # << >>
    THEN registrationStrategy.value
    ELSE RegisterWhenStable

\* the switch of lines 116-135 with registerWhenStable as the default case
ReadyToRegisterLenient(registrationStrategy) ==
    IF registrationStrategy.type = "function"
    THEN [kind |-> "factory", delay |-> 0]
    ELSE LET parts == split(StrategyOrDefault(registrationStrategy), ":")
             strategy == Head(parts)
             args == Tail(parts)
         IN IF strategy = RegisterImmediately
            THEN [kind |-> "of", delay |-> 0]
            ELSE IF strategy = RegisterWithDelay
            THEN [kind |-> "delay", delay |-> DelayMs(args)]
            ELSE [kind |-> "isStable", delay |-> 0]

\* lines 111-136: the source of readyToRegister$, or the throw of line 134
ReadyToRegister(registrationStrategy) ==
    IF registrationStrategy.type = "function"
    THEN [kind |-> "factory", delay |-> 0]
    ELSE LET parts == split(StrategyOrDefault(registrationStrategy), ":")
             strategy == Head(parts)
             args == Tail(parts)
         IN IF strategy = RegisterImmediately
            THEN [kind |-> "of", delay |-> 0]
            ELSE IF strategy = RegisterWithDelay
            THEN [kind |-> "delay", delay |-> DelayMs(args)]
            ELSE IF strategy = RegisterWhenStable
            THEN [kind |-> "isStable", delay |-> 0]
            ELSE [kind |-> "throw", delay |-> 0]

\* line 134
UnknownStrategyError(registrationStrategy) ==
    [message |-> "Unknown ServiceWorker registration strategy: ",
     strategy |-> registrationStrategy.value]

\* line 126: filter(stable => stable), applied for registerWhenStable only
filterStable(kind, values) ==
    IF kind = "isStable"
    THEN SelectSeq(values, LAMBDA stable : stable = "true")
    ELSE values

\* the pipe of line 139 without take(1)
takeAll(taken, values) == [out |-> values, done |-> FALSE]

\* line 139: take(1), for a subscriber that has taken `taken` values: the
\* values passed on and whether the subscription completes
take1(taken, values) ==
    LET out == IF taken >= 1 \/ values = << >> THEN << >> ELSE << Head(values) >>
    IN [out |-> out, done |-> taken + Len(out) >= 1]

\* the InjectionToken SCRIPT (line 80) and the call of line 142
SCRIPT == "ngsw-worker.js"
RegisterCall(options) == [script |-> SCRIPT, options |-> [scope |-> options.scope]]

\* lines 139-142: the source emits the values while the subscription is in
\* the given state and `registered` holds the calls of register made so far
Subscriber(kind, subscription, registered, values, options) ==
    IF subscription # "open"
    THEN [subscription |-> subscription, registered |-> registered]
    ELSE LET taken == take1(Len(registered), filterStable(kind, values))
         IN [subscription |-> IF taken.done THEN "closed" ELSE "open",
             registered |->
                 registered \o [i \in DOMAIN taken.out |-> RegisterCall(options)]]

\* an event that has occurred
SwEvent(type, value) == [type |-> type, value |-> value]
EmissionEvents(values) == [i \in DOMAIN values |-> SwEvent("emission", values[i])]

\* the values an Observable emits: isStable emits booleans, of(null) null
EmissionValues == { "true", "false" }

OptionChoices ==
    { SwRegistrationOptions(enabled, scope, registrationStrategy) :
          enabled \in { Undefined, Def(TRUE), Def(FALSE) },
          scope \in { Undefined, Def("/app/") },
          registrationStrategy \in
              { StrategyUnset, StrategyFunction }
                  \cup { StrategyString(value) :
                             value \in { << >>,
                                         RegisterImmediately,
                                         RegisterWithDelay,
                                         RegisterWithDelay \o << ":", "5" >>,
                                         RegisterWithDelay \o << ":", "x" >>,
                                         RegisterWhenStable,
                                         RegisterWhenStable \o << ":", "1" >>,
                                         Bogus,
                                         Bogus \o << ":" >> \o RegisterImmediately } } }

SwInit ==
    /\ globs = << >>
    /\ candidate = << >>
    /\ isMatch = FALSE
    /\ wasMatch = FALSE
    /\ config = 1
    /\ baseHref = << "/" >>
    /\ fsFiles = {}
    /\ CallIdle
    /\ UrlIdle
    /\ swOptions \in OptionChoices
    /\ swBrowser \in BOOLEAN
    /\ swSupported \in BOOLEAN
    /\ swPc = "created"
    /\ swThrown = Undefined
    /\ swListeners = 0
    /\ swController = "null"
    /\ swPosted = << >>
    /\ swSubscription = "none"
    /\ swTimer = [state |-> "none", delay |-> 0]
    /\ swEmitted = << >>
    /\ swRegistered = << >>
    /\ swEvents = << >>

SwOther == << matchVars, inputVars, callVars, urlVars >>
Ready == ReadyToRegister(swOptions.registrationStrategy)

\* lines 94-96: the initializer runs and returns at once
InitializerSkips ==
    /\ swPc = "created"
    /\ ~ShouldRegister(swBrowser, swSupported, swOptions.enabled)
    /\ swPc' = "ran"
    /\ UNCHANGED << swOptions, swBrowser, swSupported, swThrown, swListeners,
                    swController, swPosted, swSubscription, swTimer,
                    swEmitted, swRegistered, swEvents, SwOther >>

\* lines 101-134: the initializer installs the listener and throws
InitializerThrows ==
    /\ swPc = "created"
    /\ ShouldRegister(swBrowser, swSupported, swOptions.enabled)
    /\ Ready.kind = "throw"
    /\ swListeners' = swListeners + 1
    /\ swThrown' = Def(UnknownStrategyError(swOptions.registrationStrategy))
    /\ swPc' = "threw"
    /\ UNCHANGED << swOptions, swBrowser, swSupported, swController, swPosted,
                    swSubscription, swTimer, swEmitted, swRegistered,
                    swEvents, SwOther >>

\* lines 101-142: the initializer installs the listener and subscribes; the
\* source emits the values `sync` during the subscription: of(null) emits
\* null, delay arms its timer and emits nothing yet, isStable and the
\* Observable of a factory emit what they choose to
InitializerSubscribes(sync) ==
    /\ swPc = "created"
    /\ ShouldRegister(swBrowser, swSupported, swOptions.enabled)
    /\ Ready.kind # "throw"
    /\ Ready.kind = "of" => sync = << "null" >>
    /\ Ready.kind = "delay" => sync = << >>
    /\ Ready.kind \in { "isStable", "factory" } =>
           sync \in Strings(EmissionValues, MaxSwEvents - Len(swEvents))
    /\ swListeners' = swListeners + 1
    /\ swTimer' = IF Ready.kind = "delay"
                  THEN [state |-> "armed", delay |-> Ready.delay]
                  ELSE swTimer
    /\ swEmitted' = sync
    /\ swEvents' = swEvents \o EmissionEvents(sync)
    /\ LET after == Subscriber(Ready.kind, "open", << >>, sync, swOptions)
       IN /\ swSubscription' = after.subscription
          /\ swRegistered' = after.registered
    /\ swPc' = "ran"
    /\ UNCHANGED << swOptions, swBrowser, swSupported, swThrown,
                    swController, swPosted, SwOther >>

\* the timer of delay fires: the delayed null is emitted
TimerFires ==
    /\ swTimer.state = "armed"
    /\ Len(swEvents) < MaxSwEvents
    /\ swTimer' = [swTimer EXCEPT !.state = "fired"]
    /\ swEmitted' = Append(swEmitted, "null")
    /\ swEvents' = Append(swEvents, SwEvent("emission", "null"))
    /\ LET after == Subscriber(Ready.kind, swSubscription, swRegistered,
                               << "null" >>, swOptions)
       IN /\ swSubscription' = after.subscription
          /\ swRegistered' = after.registered
    /\ UNCHANGED << swOptions, swBrowser, swSupported, swPc, swThrown,
                    swListeners, swController, swPosted, SwOther >>

\* the Observable of the factory, when the initializer has subscribed to
\* one, and appRef.isStable otherwise, emits a value after the initializer
\* has run
SourceEmits(value) ==
    /\ swPc # "created"
    /\ Len(swEvents) < MaxSwEvents
    /\ swEvents' = Append(swEvents, SwEvent("emission", value))
    /\ IF swSubscription # "none" /\ Ready.kind \in { "isStable", "factory" }
       THEN /\ swEmitted' = Append(swEmitted, value)
            /\ LET after == Subscriber(Ready.kind, swSubscription,
                                       swRegistered, << value >>, swOptions)
               IN /\ swSubscription' = after.subscription
                  /\ swRegistered' = after.registered
       ELSE UNCHANGED << swEmitted, swSubscription, swRegistered >>
    /\ UNCHANGED << swOptions, swBrowser, swSupported, swPc, swThrown,
                    swListeners, swController, swPosted, swTimer, SwOther >>

\* the values of navigator.serviceWorker.controller
ControllerChoices == { "null", "sw1", "sw2" }

\* a message posted to a worker
Posted(worker, data) == [to |-> worker, data |-> data]

\* the listener of lines 104-108 without the test of line 105
OnControllerChangeUnchecked(controller) ==
    << Posted(controller, [action |-> "INITIALIZE"]) >>

\* lines 104-108: the listener, run with the given value of
\* navigator.serviceWorker.controller; the messages it posts
OnControllerChange(controller) ==
    IF controller # "null"
    THEN << Posted(controller, [action |-> "INITIALIZE"]) >>
    ELSE << >>

\* the controller of the page changes and the container dispatches
\* controllerchange to the listeners installed on line 101
ControllerChange(controller) ==
    /\ swBrowser
    /\ swSupported
    /\ Len(swEvents) < MaxSwEvents
    /\ swController' = controller
    /\ swEvents' = Append(swEvents, SwEvent("controllerchange", controller))
    /\ swPosted' =
           swPosted \o concat([i \in 1 .. swListeners |->
                                  OnControllerChange(controller)])
    /\ UNCHANGED << swOptions, swBrowser, swSupported, swPc, swThrown,
                    swListeners, swSubscription, swTimer, swEmitted,
                    swRegistered, SwOther >>

SwNext ==
    \/ InitializerSkips
    \/ InitializerThrows
    \/ \E sync \in Strings(EmissionValues \cup { "null" }, MaxSwEvents) :
           InitializerSubscribes(sync)
    \/ TimerFires
    \/ \E value \in EmissionValues : SourceEmits(value)
    \/ \E controller \in ControllerChoices : ControllerChange(controller)

SwSpec == SwInit /\ [][SwNext]_vars

(***************************************************************************)
(* What the claims about the registration speak of.                        *)
(***************************************************************************)
\* the platform is a browser with navigator.serviceWorker and the options
\* do not disable the registration
RegistrationOn ==
    swBrowser /\ swSupported /\ swOptions.enabled # Def(FALSE)
\* the readiness observable has emitted since the subscription: for
\* registerWhenStable, isStable has emitted true
ReadyEmitted ==
    IF Ready.kind = "isStable"
    THEN \E i \in DOMAIN swEmitted : swEmitted[i] = "true"
    ELSE swEmitted # << >>
\* the part of a string before its first ":"
PartBeforeColon(s) ==
    LET colons == { i \in DOMAIN s : s[i] = ":" }
    IN IF colons = {} THEN s
       ELSE SubSeq(s, 1, (CHOOSE i \in colons : \A j \in colons : i <= j) - 1)
KnownStrategies ==
    { RegisterImmediately, RegisterWithDelay, RegisterWhenStable }
\* the initializer did not throw and registers as registerWhenStable does
RunsAsWhenStable ==
    /\ swPc = "ran"
    /\ swThrown = Undefined
    /\ Len(swRegistered) =
           IF \E i \in DOMAIN swEmitted : swEmitted[i] = "true" THEN 1 ELSE 0

(***************************************************************************)
(* C15: once the initializer has run with options.enabled false, or on a   *)
(* platform that is not a browser, or without serviceWorker in navigator,  *)
(* register has not been called and no controllerchange listener is        *)
(* installed, whatever events have occurred since.                         *)
(***************************************************************************)
C15_DisabledNeverRegisters ==
    (swPc # "created"
         /\ (swOptions.enabled = Def(FALSE) \/ ~swBrowser \/ ~swSupported)) =>
        /\ swRegistered = << >>
        /\ swListeners = 0

\* in a browser with serviceWorker, the initializer has run with enabled
\* false; since then the controller has changed and isStable has emitted true
C15_Witness ==
    /\ swPc = "ran"
    /\ swOptions.enabled = Def(FALSE)
    /\ swBrowser
    /\ swSupported
    /\ swEvents = << SwEvent("controllerchange", "sw1"),
                     SwEvent("emission", "true") >>
    /\ swRegistered = << >>
    /\ swListeners = 0

(***************************************************************************)
(* C16: when the registration is on and the initializer has run without    *)
(* throwing, register has been called at most once, with the script and    *)
(* the scope of the options, and it has been called exactly when the       *)
(* readiness observable has emitted a value since the subscription (for    *)
(* registerWhenStable: when isStable has emitted true), however many       *)
(* values it has emitted.                                                  *)
(***************************************************************************)
C16_RegisterOnceOnFirstReadiness ==
    (swPc = "ran" /\ RegistrationOn) =>
        /\ Len(swRegistered) <= 1
        /\ \A i \in DOMAIN swRegistered :
               swRegistered[i] =
                   [script |-> SCRIPT, options |-> [scope |-> swOptions.scope]]
        /\ Len(swRegistered) = 1 <=> ReadyEmitted
        /\ swSubscription = IF ReadyEmitted THEN "closed" ELSE "open"

\* registerWhenStable: isStable has emitted false, true and true, and
\* register has been called once
C16_Witness ==
    /\ swPc = "ran"
    /\ RegistrationOn
    /\ Ready.kind = "isStable"
    /\ swEmitted = << "false", "true", "true" >>
    /\ Len(swRegistered) = 1

(***************************************************************************)
(* C20, as stated: when the registration is on and the strategy is a       *)
(* string whose part before the first ":" is none of registerImmediately,  *)
(* registerWithDelay and registerWhenStable, the initializer throws an     *)
(* error that names the strategy and register is never called; with the    *)
(* strategy unset, the initializer does not throw and registers as         *)
(* registerWhenStable does.                                                *)
(***************************************************************************)
C20_AsStated ==
    (swPc # "created" /\ RegistrationOn) =>
        /\ (swOptions.registrationStrategy.type = "string"
                /\ PartBeforeColon(swOptions.registrationStrategy.value)
                       \notin KnownStrategies) =>
               /\ swPc = "threw"
               /\ swThrown =
                      Def([message |-> "Unknown ServiceWorker registration strategy: ",
                           strategy |-> swOptions.registrationStrategy.value])
               /\ swRegistered = << >>
        /\ swOptions.registrationStrategy.type = "undefined" => RunsAsWhenStable

(***************************************************************************)
(* C20, amended: when the registration is on and the strategy is a         *)
(* non-empty string whose part before the first ":" is none of             *)
(* registerImmediately, registerWithDelay and registerWhenStable, the      *)
(* initializer throws an error that names the strategy and register is     *)
(* never called; with the strategy unset or the empty string, the          *)
(* initializer does not throw and registers as registerWhenStable does.    *)
(***************************************************************************)
C20_UnknownStrategyThrows ==
    (swPc # "created" /\ RegistrationOn) =>
        /\ (swOptions.registrationStrategy.type = "string"
                /\ swOptions.registrationStrategy.value # << >>
                /\ PartBeforeColon(swOptions.registrationStrategy.value)
                       \notin KnownStrategies) =>
               /\ swPc = "threw"
               /\ swThrown =
                      Def([message |-> "Unknown ServiceWorker registration strategy: ",
                           strategy |-> swOptions.registrationStrategy.value])
               /\ swRegistered = << >>
        /\ swOptions.registrationStrategy.type = "undefined" => RunsAsWhenStable
        /\ (swOptions.registrationStrategy.type = "string"
                /\ swOptions.registrationStrategy.value = << >>) =>
               RunsAsWhenStable

\* the initializer has thrown for "bogus:registerImmediately"; isStable has
\* emitted true since
C20_Witness ==
    /\ swPc = "threw"
    /\ RegistrationOn
    /\ swOptions.registrationStrategy
           = StrategyString(Bogus \o << ":" >> \o RegisterImmediately)
    /\ IsDef(swThrown)
    /\ Val(swThrown).strategy = Bogus \o << ":" >> \o RegisterImmediately
    /\ \E i \in DOMAIN swEvents : swEvents[i] = SwEvent("emission", "true")
    /\ swRegistered = << >>

(***************************************************************************)
(* C23: in a call of process whose configuration has an asset group that   *)
(* declares resources.versionedFiles, fs.list is called, once, and fs.hash *)
(* is not called for any file: no lookup is dispatched, also when groups   *)
(* before the declaring one have matched files.  The call does not get     *)
(* past the loop: it awaits fs.list or has been rejected.                  *)
(***************************************************************************)
C23_NoHashOnVersionedFiles ==
    (pc # "idle"
         /\ \E g \in DOMAIN Groups : IsDef(Groups[g].resources.versionedFiles)) =>
        /\ Cardinality(IoIndexes("fs.list")) = 1
        /\ IoIndexes("fs.hash") = {}
        /\ lookups = << >>
        /\ allMatchedFiles = << >>
        /\ pc \in { "list", "failed" }

\* the call has been rejected after the loop had recorded two files or more
\* for a group that precedes the declaring group
C23_Witness ==
    /\ pc = "failed"
    /\ \E g \in DOMAIN Groups : IsDef(Groups[g].resources.versionedFiles)
    /\ IoIndexes("listed") # {}
    /\ IoIndexes("partition") # {}
    /\ filesPerGroup # << >>
    /\ Len(filesPerGroup[1]) >= 2
    /\ IoIndexes("fs.hash") = {}

(***************************************************************************)
(* What the claim about the decisive pattern speaks of.                    *)
(***************************************************************************)
\* the compiled patterns without the negative ones before index i
WithoutNegativesBefore(i) ==
    LET kept == SelectSeq([k \in DOMAIN globs |-> k],
                          LAMBDA k : k >= i \/ Patterns[k].positive)
    IN [k \in DOMAIN kept |-> Patterns[kept[k]]]

(***************************************************************************)
(* C22: the matcher is true for a glob list and a candidate iff some       *)
(* pattern of the list is positive and matches the candidate while no      *)
(* negative pattern at a later index matches it; the negative patterns     *)
(* before such a pattern have no effect: the result is the same for the    *)
(* list without them.                                                      *)
(***************************************************************************)
C22_LastDecisivePattern ==
    /\ isMatch <=>
           \E i \in DOMAIN globs :
               /\ Patterns[i].positive
               /\ RegExpTest(Patterns[i].regex, candidate)
               /\ \A j \in DOMAIN globs :
                      (j > i /\ ~Patterns[j].positive) =>
                          ~RegExpTest(Patterns[j].regex, candidate)
    /\ \A i \in PositiveHits :
           matches(candidate, WithoutNegativesBefore(i)) = isMatch

\* a list of three patterns: a negative one that matches, then the positive
\* one that decides, then a negative one that does not match
C22_Witness ==
    /\ Len(globs) = 3
    /\ 1 \in NegativeHits
    /\ 2 \in PositiveHits
    /\ ~Patterns[3].positive
    /\ 3 \notin NegativeHits
    /\ isMatch

(***************************************************************************)
(* C21: once the initializer has run with the registration on, a           *)
(* controllerchange event with a controller that is not null posts exactly *)
(* one { action: 'INITIALIZE' } message, to that controller, and a         *)
(* controllerchange event with a null controller posts nothing; no step    *)
(* without a controllerchange event posts a message.                       *)
(***************************************************************************)
C21_InitializeOnControllerChange ==
    [][LET fired ==
               /\ Len(swEvents') = Len(swEvents) + 1
               /\ swEvents'[Len(swEvents')].type = "controllerchange"
       IN /\ (fired /\ swPc # "created" /\ RegistrationOn
                    /\ swController' # "null") =>
                  swPosted' =
                      Append(swPosted,
                             [to |-> swController',
                              data |-> [action |-> "INITIALIZE"]])
          /\ (fired /\ swController' = "null") => swPosted' = swPosted
          /\ ~fired => swPosted' = swPosted]_vars

\* after the initializer ran, the controller has become sw1, then null, then
\* sw2: one message has been posted to sw1 and one to sw2
C21_Witness ==
    /\ swPc = "ran"
    /\ RegistrationOn
    /\ swEvents = << SwEvent("controllerchange", "sw1"),
                     SwEvent("controllerchange", "null"),
                     SwEvent("controllerchange", "sw2") >>
    /\ swController = "sw2"
    /\ swPosted = << [to |-> "sw1", data |-> [action |-> "INITIALIZE"]],
                     [to |-> "sw2", data |-> [action |-> "INITIALIZE"]] >>

====
